---- MODULE Spec2Model ----
(***************************************************************************)
(* Model of the BLE heart-rate peripheral firmware (src/main.cpp).         *)
(*                                                                         *)
(* Three sources of control are interleaved: the startup sequence of       *)
(* main(), the one-second ticker interrupt (periodicCallback) and the      *)
(* events of the BLE stack, which invoke the callbacks main() registered.  *)
(* The firmware keeps no connection state of its own: it queries the       *)
(* stack (ble.getGapState()), so the stack's GAP state, attribute table    *)
(* and subscription flags are part of the model's state.                   *)
(***************************************************************************)
EXTENDS Integers, Sequences, FiniteSets, TLC

\* ------------------------------------------------------------------ bounds
\* Largest number of connected ticks a behaviour counts (the counters wrap
\* after 29 and after 75 connected ticks).
MaxTicks == 76

\* ------------------------------------------------------- program constants
BattFloor == 72
BattCeiling == 100
HrmFloor == 100
HrmCeiling == 175
HrmFlags == 0
Location == 3
AdvInterval == 160
NoHandle == 0

deviceName == <<109, 98, 101, 100>>

Chars == {"deviceManufacturer", "battLevel", "hrmRate", "hrmLocation"}
Services == {"deviceInformationService", "battService", "hrmService"}

\* GattCharacteristic(uuid, initialLen, maxLen, properties)
InitialLen ==
  [c \in Chars |->
     CASE c = "battLevel" -> 1
       [] c = "hrmRate" -> 2
       [] c = "hrmLocation" -> 1
       [] c = "deviceManufacturer" -> Len(deviceName)]

MaxLen ==
  [c \in Chars |->
     CASE c = "battLevel" -> 1
       [] c = "hrmRate" -> 3
       [] c = "hrmLocation" -> 1
       [] c = "deviceManufacturer" -> Len(deviceName)]

Notifiable == {"battLevel", "hrmRate"}

uuid16_list == <<"UUID_BATTERY_SERVICE", "UUID_DEVICE_INFORMATION_SERVICE",
                 "UUID_HEART_RATE_SERVICE">>

\* ------------------------------------------------------------------- state
VARIABLES
  pc,            \* index of the next statement of main() in mainProgram
  led1,          \* DigitalOut led1
  batt,          \* uint8_t batt
  hrmCounter,    \* static uint8_t hrmCounter of periodicCallback
  attached,      \* ticker.attach(periodicCallback, 1) has run
  registered,    \* callbacks registered with the stack
  initialised,   \* ble.init() has run
  gapState,      \* the stack's connection state: Idle, Advertising, Connected
  payload,       \* advertising payload accumulated so far
  advType,       \* advertising type set, "" before
  advInterval,   \* advertising interval set, 0 before
  advStarted,    \* some startAdvertising() has been issued
  svcChars,      \* characteristics added to each GattService
  stackServices, \* services added to the stack, in order
  handle,        \* handle of each characteristic, NoHandle before binding
  value,         \* attribute value the stack holds for each characteristic
  notify,        \* stack's subscription flag of each characteristic
  connTicks,     \* number of ticks that found the link connected
  tickParity,    \* number of ticks since startup, modulo 2
  lastAct,       \* the handler or statement that took the last step
  lastConn,      \* the connection state the last tick observed
  lastCb,        \* callbacks the last step invoked
  lastReq        \* requests the last step issued to the stack

vars == <<pc, led1, batt, hrmCounter, attached, registered, initialised,
          gapState, payload, advType, advInterval, advStarted, svcChars,
          stackServices, handle, value, notify, connTicks, tickParity,
          lastAct, lastConn, lastCb, lastReq>>

\* A request to the stack: operation, symbolic argument, handle, bytes.
Req(op, arg, h, data) == [op |-> op, arg |-> arg, handle |-> h, data |-> data]

\* A statement of main(): source line, operation, target, argument.
Stmt(line, op, tgt, arg) == [line |-> line, op |-> op, tgt |-> tgt, arg |-> arg]

\* ------------------------------------------------- the stack (collaborator)
\* start_advertising() moves Idle to Advertising; it changes no other state.
GapAfter(state, reqs) ==
  IF state = "Idle" /\ \E i \in 1..Len(reqs) : reqs[i].op = "startAdvertising"
    THEN "Advertising"
    ELSE state

\* update_characteristic_value(handle, bytes): the attribute with that
\* handle takes the bytes; a handle no attribute has, or bytes longer than
\* the declared maximum, change nothing.
WriteOne(val, hnd, r) ==
  [c \in Chars |->
     IF /\ r.op = "updateCharacteristicValue"
        /\ r.handle # NoHandle
        /\ hnd[c] = r.handle
        /\ Len(r.data) <= MaxLen[c]
       THEN r.data
       ELSE val[c]]

RECURSIVE ValueAfter(_, _, _)
ValueAfter(val, hnd, reqs) ==
  IF reqs = <<>>
    THEN val
    ELSE ValueAfter(WriteOne(val, hnd, Head(reqs)), hnd, Tail(reqs))

\* add_service(service): every characteristic of the service that has no
\* handle yet receives the next free one, in the order of the service's list.
BoundCount(hnd) == Cardinality({c \in Chars : hnd[c] # NoHandle})

HandlesAfterAdd(hnd, chars) ==
  [c \in Chars |->
     IF hnd[c] = NoHandle /\ \E i \in 1..Len(chars) : chars[i] = c
       THEN BoundCount(hnd) + (CHOOSE i \in 1..Len(chars) : chars[i] = c)
       ELSE hnd[c]]

\* ------------------------------------------------------------ the callbacks
\* Each callback is the sequence of requests it issues to the stack.
\* Variant: the timeout callback restarts advertising.
timeoutCallback_restart == <<Req("startAdvertising", "", NoHandle, <<>>)>>

timeoutCallback == <<>>

\* Variant: the connection callback pushes the current heart rate.
connectionCallback_push ==
  <<Req("updateCharacteristicValue", "hrmRate", handle["hrmRate"],
        <<0, hrmCounter>>)>>

connectionCallback == <<>>

\* Variant: the disconnection callback does not restart advertising.
disconnectionCallback_silent == <<>>

disconnectionCallback == <<Req("startAdvertising", "", NoHandle, <<>>)>>

\* Variant: enabling heart-rate notifications restarts advertising.
updatesEnabledCallback_restart(charHandle) ==
  IF charHandle = handle["hrmRate"]
    THEN <<Req("startAdvertising", "", NoHandle, <<>>)>>
    ELSE <<>>

updatesEnabledCallback(charHandle) ==
  IF charHandle = handle["hrmRate"] THEN <<>> ELSE <<>>

updatesDisabledCallback(charHandle) ==
  IF charHandle = handle["hrmRate"] THEN <<>> ELSE <<>>

\* Variant: the connection callback restarts both counters.
CallbackCounters_reset(cbs, b, h) ==
  IF cbs = <<"connectionCallback">> THEN <<BattFloor, HrmFloor>> ELSE <<b, h>>

\* The counters batt and hrmCounter after the callbacks cbs have run: no
\* callback assigns either.
CallbackCounters(cbs, b, h) == <<b, h>>

\* ------------------------------------------------------ periodicCallback
\* Variant: the wrap test is batt >= 100.
NextBatt_early(b) ==
  IF (b + 1) % 256 >= BattCeiling THEN BattFloor ELSE (b + 1) % 256

\* batt++; if (batt > 100) batt = 72;
NextBatt(b) ==
  IF (b + 1) % 256 > BattCeiling THEN BattFloor ELSE (b + 1) % 256

\* Variant: the wrap test is hrmCounter > 175.
NextHrm_late(h) ==
  IF (h + 1) % 256 > HrmCeiling THEN HrmFloor ELSE (h + 1) % 256

\* hrmCounter++; if (hrmCounter == 175) hrmCounter = 100;
NextHrm(h) ==
  IF (h + 1) % 256 = HrmCeiling THEN HrmFloor ELSE (h + 1) % 256

\* Variant: the measurement is sent in a four-byte format.
Bpm_long(h) == <<HrmFlags, h, 0, 0>>

\* uint8_t bpm[2] = {0x00, hrmCounter};
Bpm(h) == <<HrmFlags, h>>

\* Variant: the tick switches the indicator on instead of toggling it.
Toggle_on(l) == 1

\* led1 = !led1;
Toggle(l) == 1 - l

\* Variant: the tick treats an advertising device as connected.
Connected_advertising(state) == state # "Idle"

\* Variant: the tick does not test the connection state.
Connected_always(state) == TRUE

\* ble.getGapState().connected
Connected(state) == state = "Connected"

\* Variant: a characteristic nobody subscribed to is not updated.
TickRequests_gated(b, h) ==
  (IF notify["battLevel"]
     THEN << Req("updateCharacteristicValue", "battLevel",
                 handle["battLevel"], <<b>>) >>
     ELSE <<>>)
  \o
  (IF notify["hrmRate"]
     THEN << Req("updateCharacteristicValue", "hrmRate",
                 handle["hrmRate"], Bpm(h)) >>
     ELSE <<>>)

\* The requests of a tick that found the link connected.
TickRequests(b, h) ==
  << Req("updateCharacteristicValue", "battLevel", handle["battLevel"], <<b>>),
     Req("updateCharacteristicValue", "hrmRate", handle["hrmRate"], Bpm(h)) >>

periodicCallback ==
  /\ attached
  /\ led1' = Toggle(led1)
  /\ tickParity' = (tickParity + 1) % 2
  /\ lastAct' = "tick"
  /\ lastConn' = gapState
  /\ lastCb' = <<"periodicCallback">>
  /\ IF Connected(gapState)
       THEN /\ connTicks < MaxTicks
            /\ batt' = NextBatt(batt)
            /\ hrmCounter' = NextHrm(hrmCounter)
            /\ lastReq' = TickRequests(batt', hrmCounter')
            /\ value' = ValueAfter(value, handle, lastReq')
            /\ connTicks' = connTicks + 1
       ELSE /\ lastReq' = <<>>
            /\ UNCHANGED <<batt, hrmCounter, value, connTicks>>
  /\ UNCHANGED <<pc, attached, registered, initialised, gapState, payload,
                 advType, advInterval, advStarted, svcChars, stackServices,
                 handle, notify>>

\* -------------------------------------------------------------------- main
\* Variant: advertising starts before the advertising interval is set.
mainProgram_advFirst ==
  << Stmt(137, "led1", "", "1"),
     Stmt(139, "attach", "", "periodicCallback"),
     Stmt(142, "register", "", "onTimeout"),
     Stmt(143, "register", "", "onConnection"),
     Stmt(144, "register", "", "onDisconnection"),
     Stmt(145, "register", "", "onUpdatesEnabled"),
     Stmt(146, "register", "", "onUpdatesDisabled"),
     Stmt(149, "init", "", ""),
     Stmt(151, "accumulateAdvertisingPayload", "", "BREDR_NOT_SUPPORTED"),
     Stmt(152, "accumulateAdvertisingPayload", "", "COMPLETE_LIST_16BIT_SERVICE_IDS"),
     Stmt(153, "accumulateAdvertisingPayload", "", "HEART_RATE_SENSOR_HEART_RATE_BELT"),
     Stmt(155, "setAdvertisingType", "", "ADV_CONNECTABLE_UNDIRECTED"),
     Stmt(157, "startAdvertising", "", ""),
     Stmt(156, "setAdvertisingInterval", "", "160"),
     Stmt(160, "addCharacteristic", "deviceInformationService", "deviceManufacturer"),
     Stmt(161, "addService", "deviceInformationService", ""),
     Stmt(162, "updateCharacteristicValue", "deviceManufacturer", "deviceName"),
     Stmt(165, "addCharacteristic", "battService", "battLevel"),
     Stmt(166, "addService", "battService", ""),
     Stmt(167, "updateCharacteristicValue", "battLevel", "batt"),
     Stmt(170, "addCharacteristic", "hrmService", "hrmRate"),
     Stmt(171, "addCharacteristic", "hrmService", "hrmLocation"),
     Stmt(172, "addService", "hrmService", ""),
     Stmt(176, "updateCharacteristicValue", "hrmLocation", "location") >>

\* Variant: the battery service is added before device information.
mainProgram_swapped ==
  << Stmt(137, "led1", "", "1"),
     Stmt(139, "attach", "", "periodicCallback"),
     Stmt(142, "register", "", "onTimeout"),
     Stmt(143, "register", "", "onConnection"),
     Stmt(144, "register", "", "onDisconnection"),
     Stmt(145, "register", "", "onUpdatesEnabled"),
     Stmt(146, "register", "", "onUpdatesDisabled"),
     Stmt(149, "init", "", ""),
     Stmt(151, "accumulateAdvertisingPayload", "", "BREDR_NOT_SUPPORTED"),
     Stmt(152, "accumulateAdvertisingPayload", "", "COMPLETE_LIST_16BIT_SERVICE_IDS"),
     Stmt(153, "accumulateAdvertisingPayload", "", "HEART_RATE_SENSOR_HEART_RATE_BELT"),
     Stmt(155, "setAdvertisingType", "", "ADV_CONNECTABLE_UNDIRECTED"),
     Stmt(156, "setAdvertisingInterval", "", "160"),
     Stmt(157, "startAdvertising", "", ""),
     Stmt(165, "addCharacteristic", "battService", "battLevel"),
     Stmt(166, "addService", "battService", ""),
     Stmt(167, "updateCharacteristicValue", "battLevel", "batt"),
     Stmt(160, "addCharacteristic", "deviceInformationService", "deviceManufacturer"),
     Stmt(161, "addService", "deviceInformationService", ""),
     Stmt(162, "updateCharacteristicValue", "deviceManufacturer", "deviceName"),
     Stmt(170, "addCharacteristic", "hrmService", "hrmRate"),
     Stmt(171, "addCharacteristic", "hrmService", "hrmLocation"),
     Stmt(172, "addService", "hrmService", ""),
     Stmt(176, "updateCharacteristicValue", "hrmLocation", "location") >>

\* Variant: the sensor location is added to the heart-rate service after
\* the service has been added to the stack.
mainProgram_lateAdd ==
  << Stmt(137, "led1", "", "1"),
     Stmt(139, "attach", "", "periodicCallback"),
     Stmt(142, "register", "", "onTimeout"),
     Stmt(143, "register", "", "onConnection"),
     Stmt(144, "register", "", "onDisconnection"),
     Stmt(145, "register", "", "onUpdatesEnabled"),
     Stmt(146, "register", "", "onUpdatesDisabled"),
     Stmt(149, "init", "", ""),
     Stmt(151, "accumulateAdvertisingPayload", "", "BREDR_NOT_SUPPORTED"),
     Stmt(152, "accumulateAdvertisingPayload", "", "COMPLETE_LIST_16BIT_SERVICE_IDS"),
     Stmt(153, "accumulateAdvertisingPayload", "", "HEART_RATE_SENSOR_HEART_RATE_BELT"),
     Stmt(155, "setAdvertisingType", "", "ADV_CONNECTABLE_UNDIRECTED"),
     Stmt(156, "setAdvertisingInterval", "", "160"),
     Stmt(157, "startAdvertising", "", ""),
     Stmt(160, "addCharacteristic", "deviceInformationService", "deviceManufacturer"),
     Stmt(161, "addService", "deviceInformationService", ""),
     Stmt(162, "updateCharacteristicValue", "deviceManufacturer", "deviceName"),
     Stmt(165, "addCharacteristic", "battService", "battLevel"),
     Stmt(166, "addService", "battService", ""),
     Stmt(167, "updateCharacteristicValue", "battLevel", "batt"),
     Stmt(170, "addCharacteristic", "hrmService", "hrmRate"),
     Stmt(172, "addService", "hrmService", ""),
     Stmt(171, "addCharacteristic", "hrmService", "hrmLocation"),
     Stmt(176, "updateCharacteristicValue", "hrmLocation", "location") >>

\* Variant: the disconnection callback is registered after advertising
\* has started.
mainProgram_lateRegister ==
  << Stmt(137, "led1", "", "1"),
     Stmt(139, "attach", "", "periodicCallback"),
     Stmt(142, "register", "", "onTimeout"),
     Stmt(143, "register", "", "onConnection"),
     Stmt(145, "register", "", "onUpdatesEnabled"),
     Stmt(146, "register", "", "onUpdatesDisabled"),
     Stmt(149, "init", "", ""),
     Stmt(151, "accumulateAdvertisingPayload", "", "BREDR_NOT_SUPPORTED"),
     Stmt(152, "accumulateAdvertisingPayload", "", "COMPLETE_LIST_16BIT_SERVICE_IDS"),
     Stmt(153, "accumulateAdvertisingPayload", "", "HEART_RATE_SENSOR_HEART_RATE_BELT"),
     Stmt(155, "setAdvertisingType", "", "ADV_CONNECTABLE_UNDIRECTED"),
     Stmt(156, "setAdvertisingInterval", "", "160"),
     Stmt(157, "startAdvertising", "", ""),
     Stmt(144, "register", "", "onDisconnection"),
     Stmt(160, "addCharacteristic", "deviceInformationService", "deviceManufacturer"),
     Stmt(161, "addService", "deviceInformationService", ""),
     Stmt(162, "updateCharacteristicValue", "deviceManufacturer", "deviceName"),
     Stmt(165, "addCharacteristic", "battService", "battLevel"),
     Stmt(166, "addService", "battService", ""),
     Stmt(167, "updateCharacteristicValue", "battLevel", "batt"),
     Stmt(170, "addCharacteristic", "hrmService", "hrmRate"),
     Stmt(171, "addCharacteristic", "hrmService", "hrmLocation"),
     Stmt(172, "addService", "hrmService", ""),
     Stmt(176, "updateCharacteristicValue", "hrmLocation", "location") >>

\* The statements of main() in program order, one per call.
mainProgram ==
  << Stmt(137, "led1", "", "1"),
     Stmt(139, "attach", "", "periodicCallback"),
     Stmt(142, "register", "", "onTimeout"),
     Stmt(143, "register", "", "onConnection"),
     Stmt(144, "register", "", "onDisconnection"),
     Stmt(145, "register", "", "onUpdatesEnabled"),
     Stmt(146, "register", "", "onUpdatesDisabled"),
     Stmt(149, "init", "", ""),
     Stmt(151, "accumulateAdvertisingPayload", "", "BREDR_NOT_SUPPORTED"),
     Stmt(152, "accumulateAdvertisingPayload", "", "COMPLETE_LIST_16BIT_SERVICE_IDS"),
     Stmt(153, "accumulateAdvertisingPayload", "", "HEART_RATE_SENSOR_HEART_RATE_BELT"),
     Stmt(155, "setAdvertisingType", "", "ADV_CONNECTABLE_UNDIRECTED"),
     Stmt(156, "setAdvertisingInterval", "", "160"),
     Stmt(157, "startAdvertising", "", ""),
     Stmt(160, "addCharacteristic", "deviceInformationService", "deviceManufacturer"),
     Stmt(161, "addService", "deviceInformationService", ""),
     Stmt(162, "updateCharacteristicValue", "deviceManufacturer", "deviceName"),
     Stmt(165, "addCharacteristic", "battService", "battLevel"),
     Stmt(166, "addService", "battService", ""),
     Stmt(167, "updateCharacteristicValue", "battLevel", "batt"),
     Stmt(170, "addCharacteristic", "hrmService", "hrmRate"),
     Stmt(171, "addCharacteristic", "hrmService", "hrmLocation"),
     Stmt(172, "addService", "hrmService", ""),
     Stmt(176, "updateCharacteristicValue", "hrmLocation", "location") >>

\* pc of the event loop: while (true) ble.waitForEvent();
Loop == Len(mainProgram) + 1

StackOps == {"init", "accumulateAdvertisingPayload", "setAdvertisingType",
             "setAdvertisingInterval", "startAdvertising", "addService",
             "updateCharacteristicValue"}

\* The bytes an updateCharacteristicValue statement of main() passes.
StmtData(s) ==
  CASE s.arg = "deviceName" -> deviceName
    [] s.arg = "batt" -> <<batt>>
    [] s.arg = "location" -> <<Location>>
    [] OTHER -> <<>>

\* The request a statement of main() issues to the stack, if any.
StmtRequests(s) ==
  IF s.op \in StackOps
    THEN << Req(s.op,
                IF s.op \in {"addService", "updateCharacteristicValue"}
                  THEN s.tgt ELSE s.arg,
                IF s.op = "updateCharacteristicValue"
                  THEN handle[s.tgt] ELSE NoHandle,
                IF s.op = "updateCharacteristicValue"
                  THEN StmtData(s) ELSE <<>>) >>
    ELSE <<>>

MainStep ==
  /\ pc <= Len(mainProgram)
  /\ LET s == mainProgram[pc]
         reqs == StmtRequests(s)
     IN  /\ pc' = pc + 1
         /\ lastAct' = "main"
         /\ lastConn' = gapState
         /\ lastCb' = <<>>
         /\ lastReq' = reqs
         /\ led1' = IF s.op = "led1" THEN 1 ELSE led1
         /\ attached' = (attached \/ s.op = "attach")
         /\ registered' = IF s.op = "register"
                            THEN registered \cup {s.arg} ELSE registered
         /\ initialised' = (initialised \/ s.op = "init")
         /\ payload' = IF s.op = "accumulateAdvertisingPayload"
                         THEN Append(payload, s.arg) ELSE payload
         /\ advType' = IF s.op = "setAdvertisingType" THEN s.arg ELSE advType
         /\ advInterval' = IF s.op = "setAdvertisingInterval"
                             THEN AdvInterval ELSE advInterval
         /\ advStarted' = (advStarted \/ s.op = "startAdvertising")
         /\ gapState' = GapAfter(gapState, reqs)
         /\ svcChars' = IF s.op = "addCharacteristic"
                          THEN [svcChars EXCEPT ![s.tgt] = Append(@, s.arg)]
                          ELSE svcChars
         /\ stackServices' = IF s.op = "addService"
                               THEN Append(stackServices, s.tgt)
                               ELSE stackServices
         /\ handle' = IF s.op = "addService"
                        THEN HandlesAfterAdd(handle, svcChars[s.tgt])
                        ELSE handle
         /\ value' = ValueAfter(value, handle, reqs)
  /\ UNCHANGED <<batt, hrmCounter, notify, connTicks, tickParity>>

\* ------------------------------------------------------------ stack events
\* The callback the stack invokes for an event, when one is registered.
Invoke(reg, name) == IF reg \in registered THEN <<name>> ELSE <<>>

Issued(reg, cb) == IF reg \in registered THEN cb ELSE <<>>

\* Advertising --connection--> Connected
Connection ==
  /\ initialised
  /\ gapState = "Advertising"
  /\ lastAct' = "connection"
  /\ lastConn' = gapState
  /\ lastCb' = Invoke("onConnection", "connectionCallback")
  /\ lastReq' = Issued("onConnection", connectionCallback)
  /\ gapState' = GapAfter("Connected", lastReq')
  /\ advStarted' = (advStarted \/ \E i \in 1..Len(lastReq') :
                                     lastReq'[i].op = "startAdvertising")
  /\ value' = ValueAfter(value, handle, lastReq')
  /\ batt' = CallbackCounters(lastCb', batt, hrmCounter)[1]
  /\ hrmCounter' = CallbackCounters(lastCb', batt, hrmCounter)[2]
  /\ UNCHANGED <<pc, led1, attached, registered, initialised, payload,
                 advType, advInterval, svcChars, stackServices, handle,
                 notify, connTicks, tickParity>>

\* Advertising --timeout--> Idle
Timeout ==
  /\ initialised
  /\ gapState = "Advertising"
  /\ lastAct' = "timeout"
  /\ lastConn' = gapState
  /\ lastCb' = Invoke("onTimeout", "timeoutCallback")
  /\ lastReq' = Issued("onTimeout", timeoutCallback)
  /\ gapState' = GapAfter("Idle", lastReq')
  /\ advStarted' = (advStarted \/ \E i \in 1..Len(lastReq') :
                                     lastReq'[i].op = "startAdvertising")
  /\ value' = ValueAfter(value, handle, lastReq')
  /\ batt' = CallbackCounters(lastCb', batt, hrmCounter)[1]
  /\ hrmCounter' = CallbackCounters(lastCb', batt, hrmCounter)[2]
  /\ UNCHANGED <<pc, led1, attached, registered, initialised, payload,
                 advType, advInterval, svcChars, stackServices, handle,
                 notify, connTicks, tickParity>>

\* Connected --disconnection--> Idle, then the callback's requests
Disconnection ==
  /\ initialised
  /\ gapState = "Connected"
  /\ lastAct' = "disconnection"
  /\ lastConn' = gapState
  /\ lastCb' = Invoke("onDisconnection", "disconnectionCallback")
  /\ lastReq' = Issued("onDisconnection", disconnectionCallback)
  /\ gapState' = GapAfter("Idle", lastReq')
  /\ advStarted' = (advStarted \/ \E i \in 1..Len(lastReq') :
                                     lastReq'[i].op = "startAdvertising")
  /\ value' = ValueAfter(value, handle, lastReq')
  /\ batt' = CallbackCounters(lastCb', batt, hrmCounter)[1]
  /\ hrmCounter' = CallbackCounters(lastCb', batt, hrmCounter)[2]
  /\ UNCHANGED <<pc, led1, attached, registered, initialised, payload,
                 advType, advInterval, svcChars, stackServices, handle,
                 notify, connTicks, tickParity>>

\* Handles a notification event may carry: every assignable handle, the
\* null handle and one that no characteristic has.
EventHandles == 0..(Cardinality(Chars) + 1)

\* The subscription flags after the peer enables or disables notifications
\* of the attribute with handle h.
NotifyAfter(h, flag) ==
  [c \in Chars |->
     IF h # NoHandle /\ handle[c] = h /\ c \in Notifiable
       THEN flag ELSE notify[c]]

UpdatesEnabled ==
  /\ initialised
  /\ gapState = "Connected"
  /\ \E h \in EventHandles :
       /\ notify' = NotifyAfter(h, TRUE)
       /\ lastCb' = Invoke("onUpdatesEnabled", "updatesEnabledCallback")
       /\ lastReq' = Issued("onUpdatesEnabled", updatesEnabledCallback(h))
  /\ lastAct' = "updatesEnabled"
  /\ lastConn' = gapState
  /\ gapState' = GapAfter(gapState, lastReq')
  /\ advStarted' = (advStarted \/ \E i \in 1..Len(lastReq') :
                                     lastReq'[i].op = "startAdvertising")
  /\ value' = ValueAfter(value, handle, lastReq')
  /\ batt' = CallbackCounters(lastCb', batt, hrmCounter)[1]
  /\ hrmCounter' = CallbackCounters(lastCb', batt, hrmCounter)[2]
  /\ UNCHANGED <<pc, led1, attached, registered, initialised, payload,
                 advType, advInterval, svcChars, stackServices, handle,
                 connTicks, tickParity>>

UpdatesDisabled ==
  /\ initialised
  /\ gapState = "Connected"
  /\ \E h \in EventHandles :
       /\ notify' = NotifyAfter(h, FALSE)
       /\ lastCb' = Invoke("onUpdatesDisabled", "updatesDisabledCallback")
       /\ lastReq' = Issued("onUpdatesDisabled", updatesDisabledCallback(h))
  /\ lastAct' = "updatesDisabled"
  /\ lastConn' = gapState
  /\ gapState' = GapAfter(gapState, lastReq')
  /\ advStarted' = (advStarted \/ \E i \in 1..Len(lastReq') :
                                     lastReq'[i].op = "startAdvertising")
  /\ value' = ValueAfter(value, handle, lastReq')
  /\ batt' = CallbackCounters(lastCb', batt, hrmCounter)[1]
  /\ hrmCounter' = CallbackCounters(lastCb', batt, hrmCounter)[2]
  /\ UNCHANGED <<pc, led1, attached, registered, initialised, payload,
                 advType, advInterval, svcChars, stackServices, handle,
                 connTicks, tickParity>>

\* A disconnection event the stack delivers, once the radio is in use,
\* although no link is up.
StrayDisconnection ==
  /\ initialised
  /\ advStarted
  /\ gapState # "Connected"
  /\ lastAct' = "strayDisconnection"
  /\ lastConn' = gapState
  /\ lastCb' = Invoke("onDisconnection", "disconnectionCallback")
  /\ lastReq' = Issued("onDisconnection", disconnectionCallback)
  /\ gapState' = GapAfter(gapState, lastReq')
  /\ advStarted' = (advStarted \/ \E i \in 1..Len(lastReq') :
                                     lastReq'[i].op = "startAdvertising")
  /\ value' = ValueAfter(value, handle, lastReq')
  /\ batt' = CallbackCounters(lastCb', batt, hrmCounter)[1]
  /\ hrmCounter' = CallbackCounters(lastCb', batt, hrmCounter)[2]
  /\ UNCHANGED <<pc, led1, attached, registered, initialised, payload,
                 advType, advInterval, svcChars, stackServices, handle,
                 notify, connTicks, tickParity>>

\* ----------------------------------------------------------- specification
Init ==
  /\ pc = 1
  /\ led1 = 0
  /\ batt = BattFloor
  /\ hrmCounter = HrmFloor
  /\ attached = FALSE
  /\ registered = {}
  /\ initialised = FALSE
  /\ gapState = "Idle"
  /\ payload = <<>>
  /\ advType = ""
  /\ advInterval = 0
  /\ advStarted = FALSE
  /\ svcChars = [s \in Services |-> <<>>]
  /\ stackServices = <<>>
  /\ handle = [c \in Chars |-> NoHandle]
  /\ value = [c \in Chars |-> <<>>]
  /\ notify = [c \in Chars |-> FALSE]
  /\ connTicks = 0
  /\ tickParity = 0
  /\ lastAct = "none"
  /\ lastConn = "Idle"
  /\ lastCb = <<>>
  /\ lastReq = <<>>

Next ==
  \/ MainStep
  \/ periodicCallback
  \/ Connection
  \/ Timeout
  \/ Disconnection
  \/ UpdatesEnabled
  \/ UpdatesDisabled

Spec == Init /\ [][Next]_vars

\* The same program with a stack that may also deliver a disconnection
\* event out of order.
NextOutOfOrder ==
  \/ Next
  \/ StrayDisconnection

SpecOutOfOrder == Init /\ [][NextOutOfOrder]_vars

\* ------------------------------------------------------------- properties
\* C1: after n connected ticks the battery counter is 72 + (n mod 29); it
\* never exceeds 100, and the value the battery-level characteristic holds,
\* like every battery value written in the last step, is that counter.
BatteryAfterTicks ==
  /\ batt = 72 + (connTicks % 29)
  /\ batt <= 100
  /\ value["battLevel"] # <<>> => value["battLevel"] = <<batt>>
  /\ \A i \in 1..Len(lastReq) :
       (lastReq[i].op = "updateCharacteristicValue" /\ lastReq[i].arg = "battLevel")
         => lastReq[i].data = <<batt>>

\* The 29th connected tick has wrapped the battery level back to 72.
BatteryWrapped ==
  /\ connTicks = 29
  /\ lastAct = "tick"
  /\ batt = 72
  /\ value["battLevel"] = <<72>>

\* C2: after n connected ticks the heart-rate counter is 100 + (n mod 75),
\* within 100..174, and the bytes a tick writes to the heart-rate
\* measurement characteristic are [0x00, counter].
HeartRateAfterTicks ==
  /\ hrmCounter = 100 + (connTicks % 75)
  /\ hrmCounter \in 100..174
  /\ (lastAct = "tick" /\ lastConn = "Connected") =>
       /\ Len(lastReq) = 2
       /\ lastReq[2].op = "updateCharacteristicValue"
       /\ lastReq[2].handle = handle["hrmRate"]
       /\ lastReq[2].data = <<0, hrmCounter>>
  /\ value["hrmRate"] # <<>> => value["hrmRate"] = <<0, hrmCounter>>

\* The 75th connected tick has wrapped the heart rate back to [0x00, 100].
HeartRateWrapped ==
  /\ connTicks = 75
  /\ lastAct = "tick"
  /\ hrmCounter = 100
  /\ value["hrmRate"] = <<0, 100>>

\* C3 as stated: no step taken while the state is not Connected changes a
\* characteristic value.
NoValueChangeUnlessConnected ==
  [][gapState # "Connected" => value' = value]_vars

\* C3, amended: while the state is not Connected no tick and no stack event
\* changes a characteristic value; the only steps that do are the seeding
\* writes of main().
OnlySeedingChangesValuesUnlessConnected ==
  [][(gapState # "Connected" /\ value' # value) =>
       /\ lastAct' = "main"
       /\ Len(lastReq') = 1
       /\ lastReq'[1].op = "updateCharacteristicValue"]_vars

\* A tick has run without a connection after all values were seeded and a
\* connected tick had refreshed them.
IdleTickAfterSeeding ==
  /\ lastAct = "tick"
  /\ lastConn # "Connected"
  /\ pc = Loop
  /\ connTicks > 0
  /\ \A c \in Chars : value[c] # <<>>

\* C4 as stated: a tick never issues update_characteristic_value with the
\* handle of a characteristic that has not been bound yet.
TickWritesOnlyBound ==
  lastAct = "tick" =>
    \A i \in 1..Len(lastReq) :
      lastReq[i].op = "updateCharacteristicValue" => lastReq[i].handle # NoHandle

\* C5: a disconnection event delivered while Connected invokes the
\* disconnection callback once, issues exactly one start_advertising() and
\* leaves the state Advertising; a connection is only ever made from
\* Advertising.
DisconnectionReadvertises ==
  [][/\ (gapState = "Connected" /\ lastAct' = "disconnection") =>
          /\ lastCb' = <<"disconnectionCallback">>
          /\ lastReq' = <<Req("startAdvertising", "", NoHandle, <<>>)>>
          /\ gapState' = "Advertising"
     /\ lastAct' = "connection" => gapState = "Advertising"]_vars

\* A link that was lost is advertising again.
Readvertising ==
  /\ lastAct = "disconnection"
  /\ lastConn = "Connected"
  /\ gapState = "Advertising"
  /\ connTicks > 0

\* C6: an advertising timeout delivered while Advertising invokes the
\* timeout callback once, issues no request and leaves the state Idle; the
\* state leaves Idle only in a step that issues start_advertising().
TimeoutGoesIdle ==
  [][/\ (gapState = "Advertising" /\ lastAct' = "timeout") =>
          /\ lastCb' = <<"timeoutCallback">>
          /\ lastReq' = <<>>
          /\ gapState' = "Idle"
     /\ (gapState = "Idle" /\ gapState' # "Idle") =>
          \E i \in 1..Len(lastReq') : lastReq'[i].op = "startAdvertising"]_vars

\* Advertising has timed out and the device is still Idle a tick later.
IdleAfterTimeout ==
  /\ advStarted
  /\ gapState = "Idle"
  /\ lastAct = "tick"
  /\ lastConn = "Idle"

\* C7 as stated: a disconnection event delivered while the state is Idle or
\* Advertising changes no state and issues no request.
OutOfOrderDisconnectionIgnored ==
  [][(gapState # "Connected" /\ lastAct' = "strayDisconnection") =>
       /\ gapState' = gapState
       /\ lastReq' = <<>>]_vars

\* The service each characteristic of the reference configuration belongs to.
Owner(c) ==
  CASE c = "deviceManufacturer" -> "deviceInformationService"
    [] c = "battLevel" -> "battService"
    [] c = "hrmRate" -> "hrmService"
    [] c = "hrmLocation" -> "hrmService"

ReferenceOrder == <<"deviceInformationService", "battService", "hrmService">>

IsPrefix(a, b) == Len(a) <= Len(b) /\ \A i \in 1..Len(a) : a[i] = b[i]

\* C8: the services are added once each in the order device information,
\* battery, heart rate; a characteristic has a handle exactly when its
\* service has been added, handles are distinct, a handle once assigned
\* never changes, and after startup every characteristic has one.
ServicesBoundOnceInOrder ==
  /\ [](/\ IsPrefix(stackServices, ReferenceOrder)
        /\ \A c \in Chars :
             handle[c] # NoHandle <=>
               \E i \in 1..Len(stackServices) : stackServices[i] = Owner(c)
        /\ \A c, d \in Chars :
             (c # d /\ handle[c] # NoHandle) => handle[c] # handle[d]
        /\ pc = Loop => /\ stackServices = ReferenceOrder
                        /\ \A c \in Chars : handle[c] # NoHandle)
  /\ [][\A c \in Chars : handle[c] # NoHandle => handle'[c] = handle[c]]_vars

\* Startup has completed with all four characteristics bound and the
\* device has gone through a connection since.
AllBoundAfterStartup ==
  /\ pc = Loop
  /\ Len(stackServices) = 3
  /\ \A c \in Chars : handle[c] # NoHandle
  /\ lastAct = "connection"

FullPayload == <<"BREDR_NOT_SUPPORTED", "COMPLETE_LIST_16BIT_SERVICE_IDS",
                 "HEART_RATE_SENSOR_HEART_RATE_BELT">>

AdvConfigOps == {"accumulateAdvertisingPayload", "setAdvertisingType",
                 "setAdvertisingInterval"}

\* C9: when advertising first starts the payload holds flags, service list
\* and appearance and the type and interval are set; from then on no step
\* accumulates payload or sets type or interval, and none of them changes.
PayloadFrozen ==
  /\ [](advStarted => /\ payload = FullPayload
                      /\ advType = "ADV_CONNECTABLE_UNDIRECTED"
                      /\ advInterval = 160)
  /\ [][advStarted =>
          /\ payload' = payload
          /\ advType' = advType
          /\ advInterval' = advInterval
          /\ \A i \in 1..Len(lastReq') : lastReq'[i].op \notin AdvConfigOps]_vars

\* Advertising was restarted by a disconnection with the payload intact.
PayloadIntactOnReadvertising ==
  /\ lastAct = "disconnection"
  /\ lastReq # <<>>
  /\ gapState = "Advertising"
  /\ payload = FullPayload

\* C10: a tick that finds the link connected advances both counters and
\* writes the battery level, then the heart rate, whatever the subscription
\* flags are.
TickIgnoresSubscription ==
  [][(gapState = "Connected" /\ lastAct' = "tick") =>
       /\ batt' # batt
       /\ hrmCounter' # hrmCounter
       /\ lastReq' =
            << Req("updateCharacteristicValue", "battLevel",
                   handle["battLevel"], <<batt'>>),
               Req("updateCharacteristicValue", "hrmRate",
                   handle["hrmRate"], <<0, hrmCounter'>>) >>]_vars

\* A connected tick has written both characteristics while the heart rate
\* had no subscriber and the battery level had one.
TickWithMixedSubscription ==
  /\ lastAct = "tick"
  /\ lastConn = "Connected"
  /\ notify["battLevel"]
  /\ ~notify["hrmRate"]
  /\ value["battLevel"] = <<batt>>
  /\ value["hrmRate"] = <<0, hrmCounter>>

\* C11: a tick that finds the state not Connected toggles the indicator and
\* changes nothing else: both counters, every characteristic value and the
\* rest of the program and stack state stay as they were, and the tick
\* issues no request.
IdleTickChangesOnlyIndicator ==
  [][(gapState # "Connected" /\ lastAct' = "tick") =>
       /\ led1' # led1
       /\ lastReq' = <<>>
       /\ batt' = batt
       /\ hrmCounter' = hrmCounter
       /\ value' = value
       /\ UNCHANGED <<pc, attached, registered, initialised, gapState,
                      payload, advType, advInterval, advStarted, svcChars,
                      stackServices, handle, notify, connTicks>>]_vars

\* A tick has run while the device was advertising after a lost link, with
\* the counters advanced by earlier connected ticks.
AdvertisingTickAfterLink ==
  /\ lastAct = "tick"
  /\ lastConn = "Advertising"
  /\ lastReq = <<>>
  /\ connTicks = 2
  /\ batt = 74
  /\ hrmCounter = 102

\* C12: every tick toggles the indicator, whatever the connection state is;
\* after k ticks since startup the indicator is on when k is even and off
\* when k is odd.
IndicatorFollowsTickParity ==
  /\ [](attached => led1 = (IF tickParity = 0 THEN 1 ELSE 0))
  /\ [][lastAct' = "tick" => led1' = 1 - led1]_vars

\* The indicator is off after an odd number of ticks, the last one taken
\* while connected.
IndicatorOffAfterConnectedTick ==
  /\ lastAct = "tick"
  /\ lastConn = "Connected"
  /\ tickParity = 1
  /\ led1 = 0

\* C13: a notifications-enabled or notifications-disabled event, for any
\* handle, leaves the connection state, both counters, all characteristic
\* values and all handles unchanged and issues no request.
NotificationEventsChangeNothing ==
  [][lastAct' \in {"updatesEnabled", "updatesDisabled"} =>
       /\ lastReq' = <<>>
       /\ gapState' = gapState
       /\ batt' = batt
       /\ hrmCounter' = hrmCounter
       /\ value' = value
       /\ handle' = handle]_vars

\* Notifications of the heart-rate measurement have just been enabled.
HeartRateNotifyEnabled ==
  /\ lastAct = "updatesEnabled"
  /\ lastCb = <<"updatesEnabledCallback">>
  /\ notify["hrmRate"]
  /\ handle["hrmRate"] # NoHandle
  /\ gapState = "Connected"

\* C14: every update the firmware issues carries no more bytes than the
\* declared maximum of its target: battery level 1 of 1, heart rate 2 of 3,
\* manufacturer name 4 of 4, sensor location 1 of 1.
WritesWithinMaxLen ==
  \A i \in 1..Len(lastReq) :
    lastReq[i].op = "updateCharacteristicValue" =>
      /\ Len(lastReq[i].data) <= MaxLen[lastReq[i].arg]
      /\ lastReq[i].arg = "battLevel" =>
           Len(lastReq[i].data) = 1 /\ MaxLen["battLevel"] = 1
      /\ lastReq[i].arg = "hrmRate" =>
           Len(lastReq[i].data) = 2 /\ MaxLen["hrmRate"] = 3
      /\ lastReq[i].arg = "deviceManufacturer" =>
           Len(lastReq[i].data) = 4 /\ MaxLen["deviceManufacturer"] = 4
      /\ lastReq[i].arg = "hrmLocation" =>
           Len(lastReq[i].data) = 1 /\ MaxLen["hrmLocation"] = 1

\* All four characteristics hold a value written by the seeding or by a
\* connected tick that has just run.
AllValuesWritten ==
  /\ lastAct = "tick"
  /\ Len(lastReq) = 2
  /\ Len(value["battLevel"]) = 1
  /\ Len(value["hrmRate"]) = 2
  /\ Len(value["deviceManufacturer"]) = 4
  /\ Len(value["hrmLocation"]) = 1

Ticked == {"battLevel", "hrmRate"}

\* C15 as stated: only the tick handler issues a write of the battery-level
\* or heart-rate characteristic.
OnlyTickWritesTicked ==
  \A i \in 1..Len(lastReq) :
    (lastReq[i].op = "updateCharacteristicValue" /\ lastReq[i].arg \in Ticked)
      => lastAct = "tick"

\* C15, amended: the heart-rate characteristic is written by the tick
\* handler only; the battery-level characteristic is written by the tick
\* handler and by the one seeding write of main() (line 167); no stack-event
\* callback writes either, and their stored values change in no other step.
TickedWriters ==
  /\ [](\A i \in 1..Len(lastReq) :
          (lastReq[i].op = "updateCharacteristicValue"
             /\ lastReq[i].arg \in Ticked) =>
            \/ lastAct = "tick"
            \/ /\ lastAct = "main"
               /\ lastReq[i].arg = "battLevel"
               /\ mainProgram[pc - 1].line = 167)
  /\ [][(\E c \in Ticked : value'[c] # value[c]) =>
          \/ lastAct' = "tick"
          \/ lastAct' = "main" /\ value'["hrmRate"] = value["hrmRate"]]_vars

\* main() has seeded the battery level after connected ticks had already
\* advanced the counter.
SeedAfterConnectedTicks ==
  /\ lastAct = "main"
  /\ Len(lastReq) = 1
  /\ lastReq[1].arg = "battLevel"
  /\ connTicks > 0
  /\ value["battLevel"] = <<batt>>

ReferenceChars ==
  [s \in Services |->
     CASE s = "deviceInformationService" -> <<"deviceManufacturer">>
       [] s = "battService" -> <<"battLevel">>
       [] s = "hrmService" -> <<"hrmRate", "hrmLocation">>]

InStack(s) == \E i \in 1..Len(stackServices) : stackServices[i] = s

\* C17: when a service is added to the stack its characteristic list is
\* complete (device information 1, battery 1, heart rate 2), and no
\* characteristic is added to it afterwards.
CharsAddedBeforeBinding ==
  /\ [](\A s \in Services : InStack(s) => svcChars[s] = ReferenceChars[s])
  /\ [][\A s \in Services : InStack(s) => svcChars'[s] = svcChars[s]]_vars

\* The heart-rate service has just been added with both characteristics.
HeartRateServiceBound ==
  /\ lastAct = "main"
  /\ Len(lastReq) = 1
  /\ lastReq[1].op = "addService"
  /\ lastReq[1].arg = "hrmService"
  /\ Len(svcChars["hrmService"]) = 2
  /\ handle["hrmLocation"] # NoHandle

StackEvents == {"connection", "disconnection", "timeout", "updatesEnabled",
                "updatesDisabled"}

\* C18: no connection, disconnection, timeout or notification event
\* changes the battery counter or the heart-rate counter, so after a
\* reconnection the counters still are 72 + (n mod 29) and 100 + (n mod 75)
\* for the n connected ticks counted since startup.
EventsKeepCounters ==
  /\ [][lastAct' \in StackEvents =>
          batt' = batt /\ hrmCounter' = hrmCounter]_vars
  /\ [](lastAct = "connection" =>
          /\ batt = 72 + (connTicks % 29)
          /\ hrmCounter = 100 + (connTicks % 75))

\* The link has been made again after three connected ticks and the
\* counters are where those ticks left them.
ReconnectedWithCounters ==
  /\ lastAct = "connection"
  /\ gapState = "Connected"
  /\ connTicks = 3
  /\ batt = 75
  /\ hrmCounter = 103

AllCallbacks == {"onTimeout", "onConnection", "onDisconnection",
                 "onUpdatesEnabled", "onUpdatesDisabled"}

\* C19: all five callbacks are registered when advertising first starts,
\* so every stack event invokes its callback, and a disconnection is
\* followed by a start_advertising() request.
CallbacksRegisteredBeforeAdvertising ==
  /\ [](advStarted => registered = AllCallbacks)
  /\ [](lastAct \in StackEvents => Len(lastCb) = 1)
  /\ [](lastAct = "disconnection" =>
          /\ lastCb = <<"disconnectionCallback">>
          /\ \E i \in 1..Len(lastReq) : lastReq[i].op = "startAdvertising")

\* The first link, lost before any tick ran on it, has led to
\* re-advertising.
FirstDisconnectionReadvertised ==
  /\ lastAct = "disconnection"
  /\ lastCb = <<"disconnectionCallback">>
  /\ registered = AllCallbacks
  /\ connTicks = 0
  /\ gapState = "Advertising"

\* C20 as stated: no tick runs, and so none queries the connection state,
\* before ble.init() has completed.
NoTickBeforeInit ==
  lastAct = "tick" => initialised

====
